---- MODULE Spec2Model ----
(***************************************************************************)
(* Model of main.py: the POST /convert/{target_format}/{mode}/{setting}    *)
(* handler convert_image_dynamic, the workspace release cleanup_temp_dir,  *)
(* the conversion child process it supervises, and the part of the HTTP    *)
(* framework that transmits the response and runs the background tasks.    *)
(* Strings are TLA+ strings; an uploaded filename is a sequence of         *)
(* one-character strings so that os.path.splitext and str.lower can be     *)
(* computed on it.                                                         *)
(***************************************************************************)
EXTENDS Integers, Sequences, FiniteSets, TLC

\* ------------------------------------------------------------------ bounds
NReq == 2
BodyChunks == 2

MaxReleaseCalls == 3

\* ------------------------------------------------------- program constants
MAX_FILE_SIZE_MB == 200
TIMEOUT_SECONDS == 300
TEMP_DIR == "/tmp"
BytesPerMB == 1024 * 1024
MinSetting == 0
MaxSetting == 100

TargetFormat == {"avif", "webp", "jpeg", "png", "gif", "heif"}
ConversionMode == {"lossless", "lossy"}

Requests == 1 .. NReq
SessionIds == {"s" \o ToString(i) : i \in 1 .. NReq}
NoDir == ""

\* ------------------------------------------------------------ str helpers
UpperChars == <<"A","B","C","D","E","F","G","H","I","J","K","L","M",
                "N","O","P","Q","R","S","T","U","V","W","X","Y","Z">>
LowerChars == <<"a","b","c","d","e","f","g","h","i","j","k","l","m",
                "n","o","p","q","r","s","t","u","v","w","x","y","z">>

LowerChar(c) ==
    IF \E i \in 1 .. Len(UpperChars) : UpperChars[i] = c
    THEN LowerChars[CHOOSE i \in 1 .. Len(UpperChars) : UpperChars[i] = c]
    ELSE c

\* str.lower()
Lower(s) == [i \in 1 .. Len(s) |-> LowerChar(s[i])]

\* the Python string a character sequence stands for
RECURSIVE Str(_)
Str(s) == IF s = <<>> THEN "" ELSE Head(s) \o Str(Tail(s))

\* str.rfind(c): last 1-based index of c in p, 0 when absent
RFind(p, c) ==
    IF \E i \in 1 .. Len(p) : p[i] = c
    THEN CHOOSE i \in 1 .. Len(p) : p[i] = c /\ \A j \in (i + 1) .. Len(p) : p[j] # c
    ELSE 0

\* os.path.splitext(p): <<root, ext>>; a dot that only follows leading dots
\* of the last path component does not start an extension
splitext(p) ==
    LET sepIndex == RFind(p, "/")
        dotIndex == RFind(p, ".")
    IN  IF dotIndex > sepIndex
           /\ \E k \in (sepIndex + 1) .. (dotIndex - 1) : p[k] # "."
        THEN <<SubSeq(p, 1, dotIndex - 1), SubSeq(p, dotIndex, Len(p))>>
        ELSE <<p, <<>> >>

\* os.path.join(a, b) for a relative b
join(a, b) == a \o "/" \o b

allowed_extensions ==
    { <<".","j","p","g">>, <<".","j","p","e","g">>, <<".","p","n","g">>,
      <<".","g","i","f">>, <<".","w","e","b","p">>, <<".","a","v","i","f">>,
      <<".","h","e","i","f">>, <<".","h","e","i","c">>, <<".","b","m","p">>,
      <<".","t","i","f","f">>, <<".","t","i","f">> }

animated_formats ==
    { <<".","g","i","f">>, <<".","w","e","b","p">>, <<".","a","p","n","g">>,
      <<".","p","n","g">> }

\* ------------------------------------------------------------- arithmetic
Min(a, b) == IF a < b THEN a ELSE b
Max(a, b) == IF a > b THEN a ELSE b

\* int(n / d) for n >= 0, d > 0: truncation
IntDiv(n, d) == n \div d

\* round(n / d) for n >= 0, d > 0: Python 3 rounds half to even
PyRound(n, d) ==
    LET q == n \div d
        r == n % d
    IN  IF 2 * r < d THEN q
        ELSE IF 2 * r > d THEN q + 1
        ELSE IF q % 2 = 0 THEN q ELSE q + 1

\* ------------------------------------------------------ setting translator
\* the speed if the setting were used without the division by 10
LosslessSpeedUndivided(setting) == setting

\* avif_speed / heif_speed = min(10, int(setting / 10.0))
LosslessSpeed(setting) == Min(10, IntDiv(setting, 10))

\* webp_method = round(6 - (setting / 100.0) * 6)
WebpMethod(setting) == PyRound(600 - 6 * setting, 100)

\* the compression level if the setting were not inverted
PngCompressionInverted(setting) == Min(9, IntDiv(9 * setting, 100))

\* png_compression = min(9, int((100 - setting) * 0.09))
PngCompression(setting) == Min(9, IntDiv(9 * (100 - setting), 100))

\* the cq-level if the code rounded instead of truncating
CqLevelRounded(quality) == Max(0, Min(63, PyRound(63 * (100 - quality), 100)))

\* cq_level = max(0, min(63, int(63 * (1 - quality / 100.0))))
CqLevel(quality) == Max(0, Min(63, IntDiv(63 * (100 - quality), 100)))

\* the color count without the lower limit of 2
ColorsUnclamped(quality) == IntDiv(256 * quality, 100)

\* colors = max(2, int(256 * (quality / 100.0)))
Colors(quality) == Max(2, IntDiv(256 * quality, 100))

\* the flags of the lossless branch
LosslessFlags(target_format, setting) ==
    CASE target_format = "avif" ->
            <<"-define", "avif:lossless=true",
              "-define", "avif:speed=" \o ToString(LosslessSpeed(setting))>>
      [] target_format = "heif" ->
            <<"-define", "heif:lossless=true",
              "-define", "heif:speed=" \o ToString(LosslessSpeed(setting))>>
      [] target_format = "webp" ->
            <<"-define", "webp:lossless=true",
              "-define", "webp:method=" \o ToString(WebpMethod(setting)),
              "-quality", "100">>
      [] target_format = "jpeg" -> <<"-quality", "100">>
      [] target_format = "png" ->
            <<"-quality", ToString(91 + PngCompression(setting))>>
      [] target_format = "gif" -> <<"-layers", "optimize">>
      [] OTHER -> <<>>

\* the flags of the lossy branch
LossyFlags(target_format, setting) ==
    LET quality == setting
    IN  CASE target_format = "avif" ->
                <<"-define", "avif:cq-level=" \o ToString(CqLevel(quality)),
                  "-define", "avif:speed=4">>
          [] target_format = "heif" -> <<"-quality", ToString(quality)>>
          [] target_format = "webp" ->
                <<"-quality", ToString(quality), "-define", "webp:method=4">>
          [] target_format = "jpeg" -> <<"-quality", ToString(quality)>>
          [] target_format = "png" ->
                <<"-colors", ToString(Colors(quality)), "+dither">>
          [] target_format = "gif" ->
                <<"-colors", ToString(Colors(quality)), "+dither",
                  "-layers", "optimize">>
          [] OTHER -> <<>>

\* the coalesce test without lower-casing the extension
CoalesceFlagsCaseSensitive(file_extension, target_format) ==
    IF file_extension \in animated_formats \/ target_format \in {"gif", "webp"}
    THEN <<"-coalesce">>
    ELSE <<>>

\* -coalesce only when animation is plausible
CoalesceFlags(file_extension, target_format) ==
    IF Lower(file_extension) \in animated_formats \/ target_format \in {"gif", "webp"}
    THEN <<"-coalesce">>
    ELSE <<>>

ModeFlags(target_format, mode, setting) ==
    IF mode = "lossless" THEN LosslessFlags(target_format, setting)
    ELSE IF mode = "lossy" THEN LossyFlags(target_format, setting)
    ELSE <<>>

\* a command with the output path appended before the flags
BuildCmdOutputFirst(input_path, output_path, file_extension, target_format, mode, setting) ==
    <<"magick", input_path, output_path>>
        \o CoalesceFlags(file_extension, target_format)
        \o ModeFlags(target_format, mode, setting)

\* cmd = ['magick', input_path] + flags + [output_path]
BuildCmd(input_path, output_path, file_extension, target_format, mode, setting) ==
    <<"magick", input_path>>
        \o CoalesceFlags(file_extension, target_format)
        \o ModeFlags(target_format, mode, setting)
        \o <<output_path>>

\* media_type = f"image/{target_format}" (heif is set to "image/heif" again)
MediaType(target_format) ==
    IF target_format = "heif" THEN "image/heif" ELSE "image/" \o target_format

\* download_filename = f"{original_filename_base}_{mode}_{setting}.{target_format}"
DownloadFilename(filename, mode, setting, target_format) ==
    Str(splitext(filename)[1]) \o "_" \o mode \o "_" \o ToString(setting)
        \o "." \o target_format

\* ------------------------------------------------------------------ state
VARIABLES
    req,                \* the request's path parameters and upload
    heif_enc,           \* whether `which heif-enc` finds the encoder plugin
    pc,                 \* each request's position in the handler
    probe,              \* outcome of the request's plugin pre-check
    spawned,            \* the child processes each request has spawned
    proc,               \* the request's conversion child process
    temp_dir,           \* the request's workspace directory
    input_path,
    output_path,
    dirs,               \* directories that exist under TEMP_DIR
    files,              \* files that exist: <<directory, name>>
    issued,             \* session ids uuid4 has returned
    cleanup_scheduled,
    background_tasks,   \* directories to clean up after the response
    cmd,                \* the assembled command
    raised,             \* status of the HTTPException leaving the handler
    timed_out,
    response,           \* the response the caller receives
    sent,               \* body chunks transmitted
    file_closed,        \* the handler closed the upload's handle
    cleanup_calls,      \* calls of cleanup_temp_dir made for the request
    access,             \* <<directory, request>>: who touched a workspace
    output_exists,      \* os.path.exists(output_path) when communicate() returned
    detail,             \* the detail message of the HTTPException raised
    release_errors,     \* errors cleanup_temp_dir has logged
    release_raised      \* an exception has left cleanup_temp_dir

vars == <<req, heif_enc, pc, probe, spawned, proc, temp_dir, input_path,
          output_path, dirs, files, issued, cleanup_scheduled,
          background_tasks, cmd, raised, timed_out, response, sent,
          file_closed, cleanup_calls, access, output_exists, detail,
          release_errors, release_raised>>

NoResponse == [status |-> 0, media_type |-> "", filename |-> "", path |-> ""]
NoProc == [state |-> "none", returncode |-> -1]

\* uploads the model sends
PhotoJpg == <<"a", ".", "j", "p", "g">>
AnimGif == <<"b", ".", "G", "I", "F">>
NotesTxt == <<"n", ".", "t", "x", "t">>
PicPng == <<"c", ".", "p", "n", "g">>
DotPng == <<".", "p", "n", "g">>
NoName == <<>>
Filenames == {PhotoJpg, AnimGif, NotesTxt, DotPng, NoName}
SmallSize == 5 * BytesPerMB
Sizes == {SmallSize, MAX_FILE_SIZE_MB * BytesPerMB, MAX_FILE_SIZE_MB * BytesPerMB + 1}
SomeSettings == {MinSetting, 50, MaxSetting}

Upload(f, m, s, n, z) ==
    [target_format |-> f, mode |-> m, setting |-> s, filename |-> n, size |-> z]

\* a request slot no client uses
Absent == Upload("jpeg", "lossy", 50, PhotoJpg, SmallSize)

\* the state of the service with the requests rq on their way to it
InitWith(rq, active) ==
    /\ req = rq
    /\ heif_enc \in BOOLEAN
    /\ pc = [r \in Requests |-> IF r \in active THEN "pending" ELSE "absent"]
    /\ probe = [r \in Requests |-> "none"]
    /\ spawned = [r \in Requests |-> <<>>]
    /\ proc = [r \in Requests |-> NoProc]
    /\ temp_dir = [r \in Requests |-> NoDir]
    /\ input_path = [r \in Requests |-> ""]
    /\ output_path = [r \in Requests |-> ""]
    /\ dirs = {}
    /\ files = {}
    /\ issued = {}
    /\ cleanup_scheduled = [r \in Requests |-> FALSE]
    /\ background_tasks = [r \in Requests |-> <<>>]
    /\ cmd = [r \in Requests |-> <<>>]
    /\ raised = [r \in Requests |-> 0]
    /\ timed_out = [r \in Requests |-> FALSE]
    /\ response = [r \in Requests |-> NoResponse]
    /\ sent = [r \in Requests |-> 0]
    /\ file_closed = [r \in Requests |-> FALSE]
    /\ cleanup_calls = [r \in Requests |-> 0]
    /\ access = {}
    /\ output_exists = [r \in Requests |-> FALSE]
    /\ detail = [r \in Requests |-> ""]
    /\ release_errors = 0
    /\ release_raised = FALSE

\* one request, any path parameters the route admits, any of the uploads
Init ==
    \E f \in TargetFormat, m \in ConversionMode, s \in SomeSettings,
       n \in Filenames, z \in Sizes :
        InitWith([r \in Requests |-> IF r = 1 THEN Upload(f, m, s, n, z) ELSE Absent],
                 {1})

\* ------------------------------------------------------- workspace manager
\* a session id source that may repeat an id
uuid4Reused(used) == SessionIds

\* session_id = str(uuid.uuid4()): an id not returned before
uuid4(used) == SessionIds \ used

\* shutil.rmtree(temp_dir) inside cleanup_temp_dir, guarded by os.path.exists
DirsAfterCleanup(ds, d) == IF d \in ds THEN ds \ {d} ELSE ds
FilesAfterCleanup(ds, fs, d) == IF d \in ds THEN {f \in fs : f[1] # d} ELSE fs

\* exceptions raised inside the handler
HTTPException(status_code, message) ==
    [type |-> "HTTPException", status_code |-> status_code, message |-> message]
TimeoutError == [type |-> "TimeoutError", status_code |-> 0, message |-> ""]
OSError(message) == [type |-> "OSError", status_code |-> 0, message |-> message]

\* the except clauses without the one for asyncio.TimeoutError
HandleNoTimeoutClause(exception) ==
    CASE exception.type = "HTTPException" -> exception.status_code
      [] OTHER -> 500

\* the except clauses of the handler's try block: the status of the
\* HTTPException that leaves the handler
Handle(exception) ==
    CASE exception.type = "TimeoutError" -> 504
      [] exception.type = "HTTPException" -> exception.status_code
      [] OTHER -> 500

\* the detail of the HTTPException that leaves the handler
HandleDetail(exception) ==
    CASE exception.type = "TimeoutError" ->
            "Conversion timed out after " \o ToString(TIMEOUT_SECONDS) \o " seconds."
      [] exception.type = "HTTPException" -> exception.message
      [] OTHER -> "An unexpected server error occurred: " \o exception.message

\* the detail of the 503 the pre-check leaves with (the inner 503 is caught
\* by its own except clause and replaced)
ProbeDetail == "Unable to verify AVIF/HEIF encoder availability."

\* str(e) of the OSError that open() or copyfileobj raises while staging:
\* open() names the path it could not open
StageError(outcome, path) ==
    IF outcome = "open_failed"
    THEN "[Errno 13] Permission denied: '" \o path \o "'"
    ELSE "[Errno 28] No space left on device"

\* str(e) of the OSError create_subprocess_exec raises
SpawnError(program) == "[Errno 2] No such file or directory: '" \o program \o "'"

\* str(e) of an error raised while the response is constructed
ResponseError == "response construction failed"

\* the conversion child's diagnostic output, cut to 1000 characters
Stderr == "magick: conversion failed"

\* the detail the result check raises with
ResultDetail(returncode) ==
    IF returncode # 0 THEN "Magick failed: " \o Stderr
    ELSE "Magick command succeeded, but no output file was found."

\* a finally clause that cleans up whether or not a task was registered
SyncCleanupAlways(scheduled, ds, d) == d \in ds

\* the finally clause skips the cleanup once the background task is registered
SyncCleanupDue(scheduled, ds, d) == ~scheduled /\ d \in ds

\* a pre-check that forgets heif
NeedsPluginAvifOnly(target_format) == target_format = "avif"

\* what the pre-check needs the plugin for
NeedsPlugin(target_format) == target_format \in {"avif", "heif"}

\* file_size_mb > MAX_FILE_SIZE_MB, file_size_mb = size / (1024 * 1024)
TooLarge(size) == size > MAX_FILE_SIZE_MB * BytesPerMB

\* the detail input validation rejects the upload with (the list of allowed
\* formats that follows the extension is left out)
ValidationDetail(filename, size) ==
    IF filename = <<>> THEN "Filename is required."
    ELSE IF Lower(splitext(filename)[2]) \notin allowed_extensions
         THEN "Unsupported file format: " \o Str(Lower(splitext(filename)[2]))
    ELSE IF TooLarge(size)
         THEN "File too large. Max size is " \o ToString(MAX_FILE_SIZE_MB) \o "MB."
    ELSE ""

\* input validation without the extension check
ValidationStatusNoExtCheck(filename, size) ==
    IF filename = <<>> THEN 400
    ELSE IF TooLarge(size) THEN 400
    ELSE 0

\* the status input validation rejects the upload with, 0 when it passes
ValidationStatus(filename, size) ==
    IF filename = <<>> THEN 400
    ELSE IF Lower(splitext(filename)[2]) \notin allowed_extensions THEN 400
    ELSE IF TooLarge(size) THEN 400
    ELSE 0

\* ---------------------------------------------------------------- actions
\* the framework hands the request to the handler
Receive(r) ==
    /\ pc[r] = "pending"
    /\ pc' = [pc EXCEPT ![r] = "precheck"]
    /\ UNCHANGED <<detail, release_errors, release_raised, req, output_exists, heif_enc, probe, spawned, proc, temp_dir, input_path,
                   output_path, dirs, files, issued, cleanup_scheduled,
                   background_tasks, cmd, raised, timed_out, response, sent,
                   file_closed, cleanup_calls, access>>

\* the plugin pre-check: `which heif-enc` for avif and heif; a failure to
\* run the probe and a non-zero exit both leave as 503
PreCheck(r) ==
    /\ pc[r] = "precheck"
    /\ \E can_spawn \in BOOLEAN :
        LET needed == NeedsPlugin(req[r].target_format)
            outcome == IF ~needed THEN "none"
                       ELSE IF ~can_spawn THEN "error"
                       ELSE IF heif_enc THEN "found" ELSE "missing"
        IN  /\ needed \/ can_spawn
            /\ probe' = [probe EXCEPT ![r] = outcome]
            /\ spawned' = [spawned EXCEPT ![r] =
                              IF outcome \in {"found", "missing"}
                              THEN Append(@, "which") ELSE @]
            /\ raised' = [raised EXCEPT ![r] =
                              IF outcome \in {"missing", "error"} THEN 503 ELSE @]
            /\ detail' = [detail EXCEPT ![r] =
                              IF outcome \in {"missing", "error"} THEN ProbeDetail ELSE @]
            /\ pc' = [pc EXCEPT ![r] =
                              IF outcome \in {"missing", "error"}
                              THEN "raise" ELSE "validate"]
    /\ UNCHANGED <<release_errors, release_raised, req, output_exists, heif_enc, proc, temp_dir, input_path, output_path, dirs,
                   files, issued, cleanup_scheduled, background_tasks, cmd,
                   timed_out, response, sent, file_closed, cleanup_calls, access>>

\* input validation that runs only after the workspace was created
ValidateAfterAcquire(r) ==
    /\ pc[r] = "validate"
    /\ \E session_id \in uuid4(issued) :
        /\ issued' = issued \cup {session_id}
        /\ temp_dir' = [temp_dir EXCEPT ![r] = join(TEMP_DIR, session_id)]
        /\ dirs' = dirs \cup {join(TEMP_DIR, session_id)}
    /\ LET status == ValidationStatus(req[r].filename, req[r].size)
       IN  /\ raised' = [raised EXCEPT ![r] = status]
           /\ detail' = [detail EXCEPT ![r] =
                            ValidationDetail(req[r].filename, req[r].size)]
           /\ pc' = [pc EXCEPT ![r] = IF status # 0 THEN "raise" ELSE "stage"]
    /\ UNCHANGED <<release_errors, release_raised, req, output_exists, heif_enc, probe, spawned, proc, input_path,
                   output_path, files, cleanup_scheduled, background_tasks, cmd,
                   timed_out, response, sent, file_closed, cleanup_calls, access>>

\* filename, extension and size checks
Validate(r) ==
    /\ pc[r] = "validate"
    /\ LET status == ValidationStatus(req[r].filename, req[r].size)
       IN  /\ raised' = [raised EXCEPT ![r] = status]
           /\ detail' = [detail EXCEPT ![r] =
                            ValidationDetail(req[r].filename, req[r].size)]
           /\ pc' = [pc EXCEPT ![r] = IF status # 0 THEN "raise" ELSE "acquire"]
    /\ UNCHANGED <<release_errors, release_raised, req, output_exists, heif_enc, probe, spawned, proc, temp_dir, input_path,
                   output_path, dirs, files, issued, cleanup_scheduled,
                   background_tasks, cmd, timed_out, response, sent,
                   file_closed, cleanup_calls, access>>

\* create the workspace and derive the paths inside it
Acquire(r) ==
    /\ pc[r] = "acquire"
    /\ \E session_id \in uuid4(issued) :
        LET d == join(TEMP_DIR, session_id)
            file_extension == splitext(req[r].filename)[2]
        IN  /\ issued' = issued \cup {session_id}
            /\ temp_dir' = [temp_dir EXCEPT ![r] = d]
            /\ dirs' = dirs \cup {d}
            /\ input_path' = [input_path EXCEPT ![r] =
                                 join(d, "input" \o Str(file_extension))]
            /\ output_path' = [output_path EXCEPT ![r] =
                                 join(d, "output." \o req[r].target_format)]
            /\ access' = access \cup {<<d, r>>}
    /\ cleanup_scheduled' = [cleanup_scheduled EXCEPT ![r] = FALSE]
    /\ pc' = [pc EXCEPT ![r] = "stage"]
    /\ UNCHANGED <<detail, release_errors, release_raised, req, output_exists, heif_enc, probe, spawned, proc, files, background_tasks,
                   cmd, raised, timed_out, response, sent, file_closed,
                   cleanup_calls>>

\* name of the request's input and output file inside its workspace
InputName(r) == "input" \o Str(splitext(req[r].filename)[2])
OutputName(r) == "output." \o req[r].target_format

\* save the upload to the input path; open() or the copy may fail
Stage(r) ==
    /\ pc[r] = "stage"
    /\ \E outcome \in {"saved", "open_failed", "copy_failed"} :
        /\ files' = IF outcome = "open_failed" \/ temp_dir[r] \notin dirs
                    THEN files
                    ELSE files \cup {<<temp_dir[r], InputName(r)>>}
        /\ raised' = [raised EXCEPT ![r] =
                         IF outcome = "saved" THEN @
                         ELSE Handle(OSError(StageError(outcome, input_path[r])))]
        /\ detail' = [detail EXCEPT ![r] =
                         IF outcome = "saved" THEN @
                         ELSE HandleDetail(OSError(StageError(outcome, input_path[r])))]
        /\ pc' = [pc EXCEPT ![r] = IF outcome = "saved" THEN "plan" ELSE "finally"]
    /\ access' = access \cup {<<temp_dir[r], r>>}
    /\ UNCHANGED <<release_errors, release_raised, req, output_exists, heif_enc, probe, spawned, proc, temp_dir, input_path,
                   output_path, dirs, issued, cleanup_scheduled,
                   background_tasks, cmd, timed_out, response, sent,
                   file_closed, cleanup_calls>>

\* build the command
BuildPlan(r) ==
    /\ pc[r] = "plan"
    /\ cmd' = [cmd EXCEPT ![r] =
                  BuildCmd(input_path[r], output_path[r],
                           splitext(req[r].filename)[2],
                           req[r].target_format, req[r].mode, req[r].setting)]
    /\ pc' = [pc EXCEPT ![r] = "spawn"]
    /\ UNCHANGED <<detail, release_errors, release_raised, req, output_exists, heif_enc, probe, spawned, proc, temp_dir, input_path,
                   output_path, dirs, files, issued, cleanup_scheduled,
                   background_tasks, raised, timed_out, response, sent,
                   file_closed, cleanup_calls, access>>

\* create_subprocess_exec(*cmd): start the conversion child, or fail to
Spawn(r) ==
    /\ pc[r] = "spawn"
    /\ \E started \in BOOLEAN :
        /\ spawned' = [spawned EXCEPT ![r] = IF started THEN Append(@, cmd[r][1]) ELSE @]
        /\ proc' = [proc EXCEPT ![r] =
                       IF started THEN [state |-> "running", returncode |-> -1] ELSE @]
        /\ raised' = [raised EXCEPT ![r] =
                         IF started THEN @ ELSE Handle(OSError(SpawnError(cmd[r][1])))]
        /\ detail' = [detail EXCEPT ![r] =
                         IF started THEN @ ELSE HandleDetail(OSError(SpawnError(cmd[r][1])))]
        /\ pc' = [pc EXCEPT ![r] = IF started THEN "await" ELSE "finally"]
    /\ UNCHANGED <<release_errors, release_raised, req, output_exists, heif_enc, probe, temp_dir, input_path, output_path, dirs,
                   files, issued, cleanup_scheduled, background_tasks, cmd,
                   timed_out, response, sent, file_closed, cleanup_calls, access>>

\* the conversion child writes its output file, if its directory is there
ChildWrite(r) ==
    /\ proc[r].state = "running"
    /\ temp_dir[r] \in dirs
    /\ <<temp_dir[r], OutputName(r)>> \notin files
    /\ files' = files \cup {<<temp_dir[r], OutputName(r)>>}
    /\ access' = access \cup {<<temp_dir[r], r>>}
    /\ UNCHANGED <<detail, release_errors, release_raised, req, output_exists, heif_enc, pc, probe, spawned, proc, temp_dir, input_path,
                   output_path, dirs, issued, cleanup_scheduled,
                   background_tasks, cmd, raised, timed_out, response, sent,
                   file_closed, cleanup_calls>>

\* the conversion child exits by itself
ChildExit(r) ==
    /\ proc[r].state = "running"
    /\ \E code \in {0, 1} :
        proc' = [proc EXCEPT ![r] = [state |-> "exited", returncode |-> code]]
    /\ UNCHANGED <<detail, release_errors, release_raised, req, output_exists, heif_enc, pc, probe, spawned, temp_dir, input_path,
                   output_path, dirs, files, issued, cleanup_scheduled,
                   background_tasks, cmd, raised, timed_out, response, sent,
                   file_closed, cleanup_calls, access>>

\* wait_for(process.communicate(), TIMEOUT_SECONDS) returns: the child exited
AwaitDone(r) ==
    /\ pc[r] = "await"
    /\ proc[r].state = "exited"
    /\ pc' = [pc EXCEPT ![r] = "check"]
    /\ UNCHANGED <<detail, release_errors, release_raised, req, output_exists, heif_enc, probe, spawned, proc, temp_dir, input_path,
                   output_path, dirs, files, issued, cleanup_scheduled,
                   background_tasks, cmd, raised, timed_out, response, sent,
                   file_closed, cleanup_calls, access>>

\* what wait_for does to the child when the timeout expires: it cancels the
\* communicate() coroutine and leaves the process as it is
ProcAfterTimeout(p) == p

\* a timeout that starts the conversion a second time instead of failing
AwaitTimeoutRetryOnce(r) ==
    /\ pc[r] = "await"
    /\ proc[r].state = "running"
    /\ timed_out' = [timed_out EXCEPT ![r] = Len(spawned[r]) >= 2]
    /\ raised' = [raised EXCEPT ![r] =
                     IF Len(spawned[r]) >= 2 THEN Handle(TimeoutError) ELSE @]
    /\ detail' = [detail EXCEPT ![r] =
                     IF Len(spawned[r]) >= 2 THEN HandleDetail(TimeoutError) ELSE @]
    /\ pc' = [pc EXCEPT ![r] = IF Len(spawned[r]) >= 2 THEN "finally" ELSE "spawn"]
    /\ UNCHANGED <<release_errors, release_raised, req, output_exists, heif_enc, probe, spawned, proc, temp_dir,
                   input_path, output_path, dirs, files, issued,
                   cleanup_scheduled, background_tasks, cmd, response, sent,
                   file_closed, cleanup_calls, access>>

\* wait_for raises asyncio.TimeoutError: the child is still running
AwaitTimeout(r) ==
    /\ pc[r] = "await"
    /\ proc[r].state = "running"
    /\ timed_out' = [timed_out EXCEPT ![r] = TRUE]
    /\ proc' = [proc EXCEPT ![r] = ProcAfterTimeout(@)]
    /\ raised' = [raised EXCEPT ![r] = Handle(TimeoutError)]
    /\ detail' = [detail EXCEPT ![r] = HandleDetail(TimeoutError)]
    /\ pc' = [pc EXCEPT ![r] = "finally"]
    /\ UNCHANGED <<release_errors, release_raised, req, output_exists, heif_enc, probe, spawned, temp_dir, input_path,
                   output_path, dirs, files, issued, cleanup_scheduled,
                   background_tasks, cmd, response, sent, file_closed,
                   cleanup_calls, access>>

\* a result check that trusts the return code alone
ResultStatusNoExistsCheck(returncode, exists) ==
    IF returncode # 0 THEN 500 ELSE 0

\* the status the result check raises, 0 when the conversion succeeded
ResultStatus(returncode, exists) ==
    IF returncode # 0 THEN 500
    ELSE IF ~exists THEN 500
    ELSE 0

\* check the return code, then the output file
CheckResult(r) ==
    /\ pc[r] = "check"
    /\ LET status == ResultStatus(proc[r].returncode,
                                  <<temp_dir[r], OutputName(r)>> \in files)
       IN  /\ raised' = [raised EXCEPT ![r] =
                            IF status # 0
                            THEN Handle(HTTPException(status, ResultDetail(proc[r].returncode)))
                            ELSE @]
           /\ detail' = [detail EXCEPT ![r] =
                            IF status # 0
                            THEN HandleDetail(HTTPException(status,
                                                            ResultDetail(proc[r].returncode)))
                            ELSE @]
           /\ pc' = [pc EXCEPT ![r] = IF status # 0 THEN "finally" ELSE "respond"]
    /\ output_exists' = [output_exists EXCEPT ![r] =
                             <<temp_dir[r], OutputName(r)>> \in files]
    /\ access' = access \cup {<<temp_dir[r], r>>}
    /\ UNCHANGED <<release_errors, release_raised, req, heif_enc, probe, spawned, proc, temp_dir, input_path,
                   output_path, dirs, files, issued, cleanup_scheduled,
                   background_tasks, cmd, timed_out, response, sent,
                   file_closed, cleanup_calls>>

\* the FileResponse the handler returns
FileResponse(path, media_type, filename) ==
    [status |-> 200, media_type |-> media_type, filename |-> filename, path |-> path]

\* register the background cleanup, then construct the response; the
\* construction may raise
Respond(r) ==
    /\ pc[r] = "respond"
    /\ background_tasks' = [background_tasks EXCEPT ![r] = Append(@, temp_dir[r])]
    /\ cleanup_scheduled' = [cleanup_scheduled EXCEPT ![r] = TRUE]
    /\ \E constructed \in BOOLEAN :
        /\ response' = [response EXCEPT ![r] =
                           IF constructed
                           THEN FileResponse(output_path[r],
                                             MediaType(req[r].target_format),
                                             DownloadFilename(req[r].filename, req[r].mode,
                                                              req[r].setting,
                                                              req[r].target_format))
                           ELSE @]
        /\ raised' = [raised EXCEPT ![r] =
                         IF constructed THEN @ ELSE Handle(OSError(ResponseError))]
        /\ detail' = [detail EXCEPT ![r] =
                         IF constructed THEN @ ELSE HandleDetail(OSError(ResponseError))]
    /\ pc' = [pc EXCEPT ![r] = "finally"]
    /\ UNCHANGED <<release_errors, release_raised, req, output_exists, heif_enc, probe, spawned, proc, temp_dir, input_path,
                   output_path, dirs, files, issued, cmd, timed_out, sent,
                   file_closed, cleanup_calls, access>>

\* the finally clause: close the upload, clean up unless a task was registered
Finally(r) ==
    /\ pc[r] = "finally"
    /\ file_closed' = [file_closed EXCEPT ![r] = TRUE]
    /\ IF SyncCleanupDue(cleanup_scheduled[r], dirs, temp_dir[r])
       THEN /\ dirs' = DirsAfterCleanup(dirs, temp_dir[r])
            /\ files' = FilesAfterCleanup(dirs, files, temp_dir[r])
            /\ cleanup_calls' = [cleanup_calls EXCEPT ![r] = @ + 1]
            /\ access' = access \cup {<<temp_dir[r], r>>}
       ELSE UNCHANGED <<dirs, files, cleanup_calls, access>>
    /\ pc' = [pc EXCEPT ![r] = IF raised[r] # 0 THEN "raise" ELSE "sending"]
    /\ UNCHANGED <<detail, release_errors, release_raised, req, output_exists, heif_enc, probe, spawned, proc, temp_dir, input_path,
                   output_path, issued, cleanup_scheduled, background_tasks,
                   cmd, raised, timed_out, response, sent>>

\* the framework turns the HTTPException into the JSON error response; the
\* registered background tasks belong to no response and are not run
SendError(r) ==
    /\ pc[r] = "raise"
    /\ response' = [response EXCEPT ![r] =
                       [status |-> raised[r], media_type |-> "application/json",
                        filename |-> "", path |-> ""]]
    /\ pc' = [pc EXCEPT ![r] = "done"]
    /\ UNCHANGED <<detail, release_errors, release_raised, req, output_exists, heif_enc, probe, spawned, proc, temp_dir, input_path,
                   output_path, dirs, files, issued, cleanup_scheduled,
                   background_tasks, cmd, raised, timed_out, sent, file_closed,
                   cleanup_calls, access>>

\* the framework sends one chunk of the file the response names
Transmit(r) ==
    /\ pc[r] = "sending"
    /\ sent' = [sent EXCEPT ![r] = @ + 1]
    /\ access' = access \cup {<<temp_dir[r], r>>}
    /\ pc' = [pc EXCEPT ![r] =
                 IF sent[r] + 1 < BodyChunks THEN "sending"
                 ELSE IF background_tasks[r] # <<>> THEN "background" ELSE "done"]
    /\ UNCHANGED <<detail, release_errors, release_raised, req, output_exists, heif_enc, probe, spawned, proc, temp_dir, input_path,
                   output_path, dirs, files, issued, cleanup_scheduled,
                   background_tasks, cmd, raised, timed_out, response,
                   file_closed, cleanup_calls>>

\* after the body, the framework runs the response's background task:
\* cleanup_temp_dir(temp_dir)
RunBackground(r) ==
    /\ pc[r] = "background"
    /\ LET d == Head(background_tasks[r])
       IN  /\ dirs' = DirsAfterCleanup(dirs, d)
           /\ files' = FilesAfterCleanup(dirs, files, d)
           /\ access' = access \cup {<<d, r>>}
    /\ cleanup_calls' = [cleanup_calls EXCEPT ![r] = @ + 1]
    /\ background_tasks' = [background_tasks EXCEPT ![r] = Tail(@)]
    /\ pc' = [pc EXCEPT ![r] = IF Len(background_tasks[r]) > 1 THEN "background" ELSE "done"]
    /\ UNCHANGED <<detail, release_errors, release_raised, req, output_exists, heif_enc, probe, spawned, proc, temp_dir, input_path,
                   output_path, issued, cleanup_scheduled, cmd, raised,
                   timed_out, response, sent, file_closed>>

Next ==
    \E r \in Requests :
        \/ Receive(r)
        \/ PreCheck(r)
        \/ Validate(r)
        \/ Acquire(r)
        \/ Stage(r)
        \/ BuildPlan(r)
        \/ Spawn(r)
        \/ ChildWrite(r)
        \/ ChildExit(r)
        \/ AwaitDone(r)
        \/ AwaitTimeout(r)
        \/ CheckResult(r)
        \/ Respond(r)
        \/ Finally(r)
        \/ SendError(r)
        \/ Transmit(r)
        \/ RunBackground(r)

Spec == Init /\ [][Next]_vars

\* the steps of request r that the event loop and the framework take
HandlerStep(r) ==
    \/ Receive(r)
    \/ PreCheck(r)
    \/ Validate(r)
    \/ Acquire(r)
    \/ Stage(r)
    \/ BuildPlan(r)
    \/ Spawn(r)
    \/ AwaitDone(r)
    \/ AwaitTimeout(r)
    \/ CheckResult(r)
    \/ Respond(r)
    \/ Finally(r)
    \/ SendError(r)
    \/ Transmit(r)
    \/ RunBackground(r)

\* the event loop runs every ready coroutine and the timeout always fires
SpecLive == Init /\ [][Next]_vars /\ \A r \in Requests : WF_vars(HandlerStep(r))

\* ------------------------------------------------- cleanup_temp_dir alone
\* the paths cleanup_temp_dir is called with, existing or not
ReleaseTargets == {join(TEMP_DIR, session_id) : session_id \in SessionIds}
WorkspaceFiles(d) == {<<d, "input.jpg">>, <<d, "output.jpeg">>}

\* a cleanup_temp_dir without its try/except: a failing rmtree propagates
ReleaseUncaught(rmtree_failed) == rmtree_failed

\* whether an exception leaves cleanup_temp_dir: its except Exception clause
\* logs whatever rmtree raised and returns
ReleasePropagates(rmtree_failed) == FALSE

\* cleanup_temp_dir(d), called for request r: nothing without the directory;
\* else rmtree, which may fail after deleting some of the files
CleanupTempDir(r, d) ==
    /\ cleanup_calls[r] < MaxReleaseCalls
    /\ \E rmtree_fails \in BOOLEAN, kept \in SUBSET {f \in files : f[1] = d} :
        LET failed == d \in dirs /\ rmtree_fails
        IN  /\ ~failed => (~rmtree_fails /\ kept = {})
            /\ dirs' = IF failed THEN dirs ELSE DirsAfterCleanup(dirs, d)
            /\ files' = IF failed THEN {f \in files : f[1] # d} \cup kept
                        ELSE FilesAfterCleanup(dirs, files, d)
            /\ release_errors' = IF failed THEN release_errors + 1 ELSE release_errors
            /\ release_raised' = (release_raised \/ ReleasePropagates(failed))
    /\ cleanup_calls' = [cleanup_calls EXCEPT ![r] = @ + 1]
    /\ UNCHANGED <<detail, req, output_exists, heif_enc, pc, probe, spawned, proc,
                   temp_dir, input_path, output_path, issued, cleanup_scheduled,
                   background_tasks, cmd, raised, timed_out, response, sent,
                   file_closed, access>>

\* no request in flight; any directories and files left under TEMP_DIR
InitRelease ==
    /\ req = [r \in Requests |-> Absent]
    /\ heif_enc = TRUE
    /\ pc = [r \in Requests |-> "absent"]
    /\ probe = [r \in Requests |-> "none"]
    /\ spawned = [r \in Requests |-> <<>>]
    /\ proc = [r \in Requests |-> NoProc]
    /\ temp_dir = [r \in Requests |-> NoDir]
    /\ input_path = [r \in Requests |-> ""]
    /\ output_path = [r \in Requests |-> ""]
    /\ dirs \in SUBSET ReleaseTargets
    /\ files \in SUBSET (UNION {WorkspaceFiles(d) : d \in dirs})
    /\ issued = {}
    /\ cleanup_scheduled = [r \in Requests |-> FALSE]
    /\ background_tasks = [r \in Requests |-> <<>>]
    /\ cmd = [r \in Requests |-> <<>>]
    /\ raised = [r \in Requests |-> 0]
    /\ timed_out = [r \in Requests |-> FALSE]
    /\ response = [r \in Requests |-> NoResponse]
    /\ sent = [r \in Requests |-> 0]
    /\ file_closed = [r \in Requests |-> FALSE]
    /\ cleanup_calls = [r \in Requests |-> 0]
    /\ access = {}
    /\ output_exists = [r \in Requests |-> FALSE]
    /\ detail = [r \in Requests |-> ""]
    /\ release_errors = 0
    /\ release_raised = FALSE

NextRelease == \E r \in Requests, d \in ReleaseTargets : CleanupTempDir(r, d)

SpecRelease == InitRelease /\ [][NextRelease]_vars

\* every request slot in use at once, each converting a valid upload
InitConc ==
    /\ InitWith([r \in Requests |-> Upload("jpeg", "lossy", 50, PhotoJpg, SmallSize)],
                Requests)
    /\ heif_enc

SpecConc == InitConc /\ [][Next]_vars

\* one valid upload with every setting the route admits
InitPlan ==
    \E f \in TargetFormat, m \in ConversionMode, s \in MinSetting .. MaxSetting,
       n \in {PhotoJpg, AnimGif, PicPng} :
        /\ InitWith([r \in Requests |-> IF r = 1 THEN Upload(f, m, s, n, SmallSize)
                                                  ELSE Absent], {1})
        /\ heif_enc

\* the handler up to the assembled command
NextPlan ==
    \E r \in Requests :
        \/ Receive(r)
        \/ PreCheck(r)
        \/ Validate(r)
        \/ Acquire(r)
        \/ Stage(r)
        \/ BuildPlan(r)

SpecPlan == InitPlan /\ [][NextPlan]_vars

\* ----------------------------------------------------------- properties
Done(r) == pc[r] = "done"
Status(r) == response[r].status
Acquired(r) == temp_dir[r] # NoDir
FileExt(r) == Lower(splitext(req[r].filename)[2])
EngineSpawned(r) == \E i \in 1 .. Len(spawned[r]) : spawned[r][i] = "magick"
\* the conversion child exited before the timeout
InTime(r) == proc[r].state = "exited" /\ ~timed_out[r]
\* the command carries the flag a followed by the value b
HasFlag(r, a, b) ==
    \E i \in 1 .. (Len(cmd[r]) - 1) : cmd[r][i] = a /\ cmd[r][i + 1] = b

\* C1: a request that acquired a workspace and reached its terminal state
\* has its workspace deleted, by exactly one call of the release.
C1_ReleasedExactlyOnce ==
    \A r \in Requests :
        (Done(r) /\ Acquired(r)) =>
            (temp_dir[r] \notin dirs /\ cleanup_calls[r] = 1)

\* C2: once a timed-out request has reached its terminal state, the
\* conversion child it started is not running any more.
C2_NoOrphanAfterTimeout ==
    \A r \in Requests :
        (Done(r) /\ timed_out[r]) => proc[r].state # "running"

\* C3 as stated: the caller receives 200 with content type image/<format>
\* if and only if the child exited 0 in time and the output file exists;
\* exit 0 without output, and a non-zero exit, end in 500.
C3_SuccessIffExitZeroAndOutput ==
    \A r \in Requests :
        Done(r) =>
            /\ (Status(r) = 200 /\ response[r].media_type = "image/" \o req[r].target_format)
                  <=> (InTime(r) /\ proc[r].returncode = 0 /\ output_exists[r])
            /\ (InTime(r) /\ proc[r].returncode = 0 /\ ~output_exists[r]) => Status(r) = 500
            /\ (InTime(r) /\ proc[r].returncode # 0) => Status(r) = 500

\* C3 amended: the caller receives 200 with content type image/<format>
\* only if the child exited 0 in time and the output file exists, and then
\* it receives 200 unless constructing the response raised, which ends in
\* 500; exit 0 without output, and a non-zero exit, end in 500.
C3_SuccessNeedsExitZeroAndOutput ==
    \A r \in Requests :
        Done(r) =>
            /\ Status(r) = 200 =>
                  /\ response[r].media_type = "image/" \o req[r].target_format
                  /\ InTime(r) /\ proc[r].returncode = 0 /\ output_exists[r]
            /\ (InTime(r) /\ proc[r].returncode = 0 /\ output_exists[r] /\ Status(r) # 200) =>
                  (Status(r) = 500 /\ cleanup_scheduled[r])
            /\ (InTime(r) /\ proc[r].returncode = 0 /\ ~output_exists[r]) => Status(r) = 500
            /\ (InTime(r) /\ proc[r].returncode # 0) => Status(r) = 500

C3_Witness ==
    \E r \in Requests :
        /\ Done(r) /\ Status(r) = 200 /\ req[r].target_format = "heif"
        /\ proc[r].returncode = 0 /\ output_exists[r]

\* C4: a request whose child exceeded the timeout ends with 504, a request
\* whose child exited non-zero in time ends with 500, and 504 is given to
\* timed-out requests only.
C4_TimeoutDistinctFromFailure ==
    \A r \in Requests :
        Done(r) =>
            /\ timed_out[r] => Status(r) = 504
            /\ (InTime(r) /\ proc[r].returncode # 0) => Status(r) = 500
            /\ Status(r) = 504 => timed_out[r]

C4_Witness ==
    \E r \in Requests :
        /\ Done(r) /\ timed_out[r] /\ Status(r) = 504
        /\ proc[r].state = "exited" /\ proc[r].returncode # 0

\* C5 as stated: a request whose filename has an extension outside the
\* allow-list ends with 400, whatever the target format and the plugin.
C5_BadExtensionAlways400 ==
    \A r \in Requests :
        (Done(r) /\ FileExt(r) \notin allowed_extensions) => Status(r) = 400

\* C5 amended: a request whose filename has an extension outside the
\* allow-list ends with 400, except that for target avif or heif it ends
\* with 503 when the plugin pre-check does not find the plugin.
C5_BadExtension400Unless503 ==
    \A r \in Requests :
        (Done(r) /\ FileExt(r) \notin allowed_extensions) =>
            Status(r) = IF req[r].target_format \in {"avif", "heif"} /\ probe[r] # "found"
                        THEN 503 ELSE 400

C5_Witness ==
    \E r \in Requests :
        /\ Done(r) /\ req[r].filename = NotesTxt /\ Status(r) = 400
        /\ req[r].target_format = "avif" /\ probe[r] = "found"

\* C6 as stated: a request answered 400 by input validation has spawned no
\* child process and never had a workspace.
C6_RejectedSpawnsNothing ==
    \A r \in Requests :
        (Done(r) /\ Status(r) = 400) =>
            (spawned[r] = <<>> /\ ~Acquired(r) /\ \A a \in access : a[2] # r)

\* C6 amended: a request answered 400 by input validation never spawned the
\* conversion engine and never had a workspace; the only child process it
\* spawned is the plugin probe, exactly when the target is avif or heif.
C6_RejectedSpawnsNoEngine ==
    \A r \in Requests :
        (Done(r) /\ Status(r) = 400) =>
            /\ ~EngineSpawned(r)
            /\ ~Acquired(r)
            /\ \A a \in access : a[2] # r
            /\ spawned[r] = IF req[r].target_format \in {"avif", "heif"}
                            THEN <<"which">> ELSE <<>>

C6_Witness ==
    \E r \in Requests :
        /\ Done(r) /\ Status(r) = 400 /\ TooLarge(req[r].size)
        /\ spawned[r] = <<"which">> /\ dirs = {}

\* C7: for target avif or heif with the plugin absent the request ends with
\* 503, no workspace was created and the engine was never spawned; for the
\* other four formats no 503 is ever produced.
C7_PluginAbsent503BeforeStaging ==
    \A r \in Requests :
        /\ (Done(r) /\ req[r].target_format \in {"avif", "heif"} /\ ~heif_enc) =>
              /\ Status(r) = 503
              /\ ~Acquired(r)
              /\ ~EngineSpawned(r)
              /\ \A a \in access : a[2] # r
        /\ req[r].target_format \notin {"avif", "heif"} =>
              (Status(r) # 503 /\ raised[r] # 503)

C7_Witness ==
    \E r \in Requests :
        /\ Done(r) /\ req[r].target_format = "heif" /\ probe[r] = "missing"
        /\ Status(r) = 503 /\ dirs = {}

\* C8: from the construction of the success response until its body is
\* fully sent and the background task runs, the workspace and the output
\* file exist and no release has been made.
C8_WorkspaceOutlivesTransmission ==
    \A r \in Requests :
        (Status(r) = 200 /\ pc[r] \in {"finally", "sending", "background"}) =>
            /\ temp_dir[r] \in dirs
            /\ <<temp_dir[r], OutputName(r)>> \in files
            /\ cleanup_calls[r] = 0

C8_Witness ==
    \E r \in Requests :
        /\ Status(r) = 200 /\ pc[r] = "background" /\ sent[r] = BodyChunks
        /\ temp_dir[r] \in dirs

\* C9: no two requests ever hold the same workspace, and every workspace is
\* touched on behalf of one request only.
C9_WorkspacesNeverShared ==
    /\ \A r1, r2 \in Requests :
          (r1 # r2 /\ Acquired(r1) /\ Acquired(r2)) => temp_dir[r1] # temp_dir[r2]
    /\ \A a, b \in access : a[1] = b[1] => a[2] = b[2]
    /\ \A a \in access : a[1] = temp_dir[a[2]]
    /\ \A f \in files : \E r \in Requests : f[1] = temp_dir[r] /\ <<f[1], r>> \in access

C9_Witness ==
    \E r1, r2 \in Requests :
        /\ r1 # r2 /\ pc[r1] = "await" /\ pc[r2] = "sending"
        /\ temp_dir[r1] \in dirs /\ temp_dir[r2] \in dirs

\* C10 as stated: for avif in lossy mode the plan carries cq-level
\* round(63 * (1 - setting / 100)) clamped to 0..63, and speed 4.
C10_CqLevelRounded ==
    \A r \in Requests :
        (pc[r] = "spawn" /\ req[r].target_format = "avif" /\ req[r].mode = "lossy") =>
            /\ HasFlag(r, "-define", "avif:cq-level=" \o
                    ToString(Max(0, Min(63, PyRound(63 * (100 - req[r].setting), 100)))))
            /\ HasFlag(r, "-define", "avif:speed=4")

\* C10 amended: for avif in lossy mode the plan carries as cq-level the
\* integer part of 63 * (1 - setting / 100), which lies in 0..63, and
\* speed 4; setting 50 gives 31.
C10_CqLevelTruncated ==
    \A r \in Requests :
        (pc[r] = "spawn" /\ req[r].target_format = "avif" /\ req[r].mode = "lossy") =>
            /\ \E c \in 0 .. 63 :
                  /\ 100 * c <= 63 * (100 - req[r].setting)
                  /\ 63 * (100 - req[r].setting) < 100 * (c + 1)
                  /\ HasFlag(r, "-define", "avif:cq-level=" \o ToString(c))
                  /\ \A k \in (0 .. 63) \ {c} :
                        ~HasFlag(r, "-define", "avif:cq-level=" \o ToString(k))
            /\ req[r].setting = 50 => HasFlag(r, "-define", "avif:cq-level=31")
            /\ HasFlag(r, "-define", "avif:speed=4")

C10_Witness ==
    \E r \in Requests :
        /\ pc[r] = "spawn" /\ req[r].target_format = "avif" /\ req[r].mode = "lossy"
        /\ req[r].setting = 50 /\ HasFlag(r, "-define", "avif:cq-level=31")

\* the request's plan has been built
Planned(r) == pc[r] = "spawn"
Is(r, f, m) == req[r].target_format = f /\ req[r].mode = m

\* C11: at settings 0 and 100 the plan carries the documented extremes:
\* avif lossy cq-level 63 and 0, webp lossless method 6 and 0, png lossy 2
\* and 256 colors, png lossless quality 100 and 91, avif and heif lossless
\* speed 0 and 10.
C11_ExtremeSettings ==
    \A r \in Requests :
        Planned(r) =>
            /\ (Is(r, "avif", "lossy") /\ req[r].setting = 100) =>
                  HasFlag(r, "-define", "avif:cq-level=0")
            /\ (Is(r, "avif", "lossy") /\ req[r].setting = 0) =>
                  HasFlag(r, "-define", "avif:cq-level=63")
            /\ (Is(r, "webp", "lossless") /\ req[r].setting = 0) =>
                  HasFlag(r, "-define", "webp:method=6")
            /\ (Is(r, "webp", "lossless") /\ req[r].setting = 100) =>
                  HasFlag(r, "-define", "webp:method=0")
            /\ (Is(r, "png", "lossy") /\ req[r].setting = 100) =>
                  HasFlag(r, "-colors", "256")
            /\ (Is(r, "png", "lossy") /\ req[r].setting = 0) =>
                  HasFlag(r, "-colors", "2")
            /\ (Is(r, "png", "lossless") /\ req[r].setting = 0) =>
                  HasFlag(r, "-quality", "100")
            /\ (Is(r, "png", "lossless") /\ req[r].setting = 100) =>
                  HasFlag(r, "-quality", "91")
            /\ \A f \in {"avif", "heif"} :
                  /\ (Is(r, f, "lossless") /\ req[r].setting = 0) =>
                        HasFlag(r, "-define", f \o ":speed=0")
                  /\ (Is(r, f, "lossless") /\ req[r].setting = 100) =>
                        HasFlag(r, "-define", f \o ":speed=10")

C11_Witness ==
    \E r \in Requests :
        /\ Planned(r) /\ Is(r, "png", "lossy") /\ req[r].setting = 0
        /\ HasFlag(r, "-colors", "2")

\* the decimal strings of the integers lo..hi
Decimals(lo, hi) == {ToString(v) : v \in lo .. hi}
\* the values a -define flag may carry
DefinesInRange ==
    {"avif:lossless=true", "heif:lossless=true", "webp:lossless=true"}
        \cup {"avif:speed=" \o d : d \in Decimals(0, 10)}
        \cup {"heif:speed=" \o d : d \in Decimals(0, 10)}
        \cup {"avif:cq-level=" \o d : d \in Decimals(0, 63)}
        \cup {"webp:method=" \o d : d \in Decimals(0, 6)}

\* C12: every encoder parameter of a plan lies in its encoder's range:
\* speed 0..10, cq-level 0..63, method 0..6, png lossless quality
\* 91..100, colors 2..256, any other -quality 0..100.
C12_ParametersInRange ==
    \A r \in Requests :
        Planned(r) =>
            \A i \in 1 .. (Len(cmd[r]) - 1) :
                /\ cmd[r][i] = "-define" => cmd[r][i + 1] \in DefinesInRange
                /\ cmd[r][i] = "-colors" => cmd[r][i + 1] \in Decimals(2, 256)
                /\ cmd[r][i] = "-quality" =>
                      cmd[r][i + 1] \in IF Is(r, "png", "lossless")
                                        THEN Decimals(91, 100) ELSE Decimals(0, 100)

C12_Witness ==
    \E r \in Requests :
        /\ Planned(r) /\ Is(r, "heif", "lossless") /\ req[r].setting = 100
        /\ HasFlag(r, "-define", "heif:speed=10")

C16_PlanTotalAndShaped ==
    \A r \in Requests :
        /\ pc[r] = "plan" => ENABLED BuildPlan(r)
        /\ Planned(r) =>
              LET n == Len(cmd[r])
              IN  /\ raised[r] = 0
                  /\ n >= 3
                  /\ cmd[r][1] = "magick"
                  /\ cmd[r][2] = temp_dir[r] \o "/input" \o Str(splitext(req[r].filename)[2])
                  /\ cmd[r][n] = temp_dir[r] \o "/output." \o req[r].target_format
                  /\ temp_dir[r] \in dirs
                  /\ \A r2 \in Requests \ {r} : temp_dir[r2] # temp_dir[r]
                  /\ \A i \in 3 .. (n - 1) :
                        cmd[r][i] \notin {cmd[r][1], cmd[r][2], cmd[r][n]}

C16_Witness ==
    \E r \in Requests :
        /\ Planned(r) /\ Is(r, "gif", "lossless") /\ req[r].filename = PhotoJpg
        /\ cmd[r] = <<"magick", input_path[r], "-coalesce", "-layers", "optimize",
                      output_path[r]>>

\* the number v in 0..hi that the flag a carries as prefix \o v
ParamValue(flags, a, prefix, hi) ==
    CHOOSE v \in 0 .. hi :
        \E i \in 1 .. (Len(flags) - 1) :
            flags[i] = a /\ flags[i + 1] = prefix \o ToString(v)

\* C20: raising the setting by one never worsens the lossy quality parameter
\* (cq-level does not rise; -quality and colors do not fall) and never
\* raises the lossless effort (speed does not fall; webp method and the png
\* level do not rise); over 0..100 this is monotonicity in the setting.
C20_MonotoneInSetting ==
    \A r \in Requests :
        (Planned(r) /\ req[r].setting < MaxSetting) =>
            LET f == req[r].target_format
                here == cmd[r]
                next == ModeFlags(f, req[r].mode, req[r].setting + 1)
            IN  /\ Is(r, "avif", "lossy") =>
                      ParamValue(next, "-define", "avif:cq-level=", 63)
                          <= ParamValue(here, "-define", "avif:cq-level=", 63)
                /\ (req[r].mode = "lossy" /\ f \in {"heif", "webp", "jpeg"}) =>
                      ParamValue(next, "-quality", "", 100)
                          >= ParamValue(here, "-quality", "", 100)
                /\ (req[r].mode = "lossy" /\ f \in {"png", "gif"}) =>
                      ParamValue(next, "-colors", "", 256)
                          >= ParamValue(here, "-colors", "", 256)
                /\ (req[r].mode = "lossless" /\ f \in {"avif", "heif"}) =>
                      ParamValue(next, "-define", f \o ":speed=", 10)
                          >= ParamValue(here, "-define", f \o ":speed=", 10)
                /\ Is(r, "webp", "lossless") =>
                      ParamValue(next, "-define", "webp:method=", 6)
                          <= ParamValue(here, "-define", "webp:method=", 6)
                /\ Is(r, "png", "lossless") =>
                      ParamValue(next, "-quality", "", 100)
                          <= ParamValue(here, "-quality", "", 100)

C20_Witness ==
    \E r \in Requests :
        /\ Planned(r) /\ Is(r, "webp", "lossless") /\ req[r].setting = 25
        /\ HasFlag(r, "-define", "webp:method=4")
        /\ ParamValue(ModeFlags("webp", "lossless", 24), "-define", "webp:method=", 6) = 5

\* the number of conversion engines the request has spawned
EnginesSpawned(r) ==
    Cardinality({i \in 1 .. Len(spawned[r]) : spawned[r][i] = "magick"})

\* C13: a request spawns the conversion engine at most once, a request that
\* has responded keeps its response and spawns nothing more, and every
\* request received ends as responded-success or responded-error.
C13_OneShot ==
    /\ [](\A r \in Requests : EnginesSpawned(r) <= 1)
    /\ [][\A r \in Requests :
            Done(r) => /\ Done(r)'
                       /\ response'[r] = response[r]
                       /\ spawned'[r] = spawned[r]]_vars
    /\ \A r \in Requests :
          (pc[r] = "pending") ~> (Done(r) /\ Status(r) \in {200, 400, 500, 503, 504})

C13_Witness ==
    \E r \in Requests :
        /\ Done(r) /\ timed_out[r] /\ Status(r) = 504
        /\ spawned[r] = <<"magick">> /\ proc[r].state = "running"

\* the request failed in the handler's clause for unexpected errors
InternalError(r) ==
    /\ Done(r) /\ Status(r) = 500 /\ Acquired(r)
    /\ InTime(r) => (proc[r].returncode = 0 /\ output_exists[r])

\* C14: two requests with the same parameters and upload that fail at the
\* same step with an unexpected internal error receive the same response,
\* whatever the text of the exception.
C14_InternalErrorIsGeneric ==
    \A r1, r2 \in Requests :
        ( /\ InternalError(r1) /\ InternalError(r2)
          /\ req[r1] = req[r2]
          /\ spawned[r1] = spawned[r2]
          /\ cmd[r1] = <<>> <=> cmd[r2] = <<>>
          /\ cleanup_scheduled[r1] = cleanup_scheduled[r2] ) =>
            (response[r1] = response[r2] /\ detail[r1] = detail[r2])

\* C18: when the error response of a request that had acquired a workspace
\* is returned, the workspace directory does not exist any more.
C18_ErrorResponseAfterRelease ==
    \A r \in Requests :
        (Done(r) /\ Acquired(r) /\ Status(r) >= 400) => temp_dir[r] \notin dirs

\* C19: a request that has reached its terminal state has closed the
\* upload's file handle.
C19_UploadClosedAtEnd ==
    \A r \in Requests : Done(r) => file_closed[r]

\* C17: cleanup_temp_dir never lets an exception out; called on a path that
\* does not exist it changes nothing and logs no error; after a call that
\* removed the directory a further call would change nothing; a call that
\* fails to remove the directory logs one error.
C17_ReleaseIdempotent ==
    /\ [](~release_raised)
    /\ [][\A r \in Requests, d \in ReleaseTargets :
            CleanupTempDir(r, d) =>
                /\ d \notin dirs => UNCHANGED <<dirs, files, release_errors>>
                /\ d \notin dirs' =>
                      /\ \A f \in files' : f[1] # d
                      /\ DirsAfterCleanup(dirs', d) = dirs'
                      /\ FilesAfterCleanup(dirs', files', d) = files'
                /\ (d \in dirs /\ d \in dirs') => release_errors' = release_errors + 1]_vars

C17_Witness ==
    /\ release_errors >= 1 /\ ~release_raised
    /\ dirs = {} /\ files = {}
    /\ \E r \in Requests : cleanup_calls[r] = MaxReleaseCalls

====
